---- MODULE Spec2Model ----
(***************************************************************************)
(* Model of the neo4j-ogm repository.                                      *)
(*                                                                         *)
(* Two applications live in the sources:                                   *)
(*   - src/main.py: a FastAPI surface whose handlers each run one Cypher   *)
(*     statement against the graph store (nodes keyed by `id`);            *)
(*   - src/services/services.py + src/models/models.py: the neomodel       *)
(*     (OGM) service layer (nodes keyed by `uid`).                         *)
(* The Cypher store is the pair (nodes, rels); the OGM store is the pair   *)
(* (onodes, orels).  resp is the response of the last HTTP request, ret    *)
(* the outcome of the last service call.  db is the global connection      *)
(* handle of src/main.py, sessions the number of driver sessions that are  *)
(* open, call the adapter call in progress, and batch the position of the  *)
(* ingestion client (src/ingest.py) in its batch.  procs holds the         *)
(* requests and service calls that are in progress at the same time.       *)
(*                                                                         *)
(* Every entity carries its key, the keys it refers to and one of its      *)
(* plain attributes (email, name, mimeType, eTag, ...); the other plain    *)
(* attributes are copied by the code in the same way.                      *)
(***************************************************************************)
EXTENDS Integers, FiniteSets, Sequences, TLC

VARIABLES nodes, rels, constraints, resp, onodes, orels, ret, db, sessions, call, batch, procs

vars == <<nodes, rels, constraints, resp, onodes, orels, ret, db, sessions, call, batch, procs>>

apiVars == <<nodes, rels, constraints, resp>>

ogmVars == <<onodes, orels, ret>>

\* the connection handle, the adapter and the ingestion client
envVars == <<db, sessions, call, batch, procs>>

(***************************************************************************)
(* Bounds and input domains                                                *)
(***************************************************************************)
\* at most MaxNodes nodes in the Cypher store
MaxNodes == 5

Keys == {"k1", "k2"}

Vals == {"a", "b"}

\* display names carried by users, and names no user carries
UserNames == {"n1"}

Names == UserNames \cup {"n2"}

NoVal == "null"

(***************************************************************************)
(* The Cypher store (src/main.py)                                          *)
(*   node: [label, n, props]; (label, key, n) identifies the node, n       *)
(*   numbering the nodes that carry the same label and key.                *)
(*   rel:  [type, from, to] with from/to node identities.                  *)
(***************************************************************************)
\* the property that holds the key of each label
KeyField(label) ==
    CASE label \in {"User", "Folder", "Document", "Classifier"} -> "id"
      [] label = "Session" -> "sessionId"
      [] label = "Enricher" -> "name"
      [] label = "BGSRecord" -> "bgsId"
      [] label = "ClassifierData" -> "classifierId"
      [] OTHER -> "documentId"

\* the uniqueness constraints create_constraints_and_indexes asks for
ConstraintLabels == {"Document", "User", "Session", "Classifier", "Folder"}

KeyOf(nd) == nd.props[KeyField(nd.label)]

Nid(nd) == <<nd.label, KeyOf(nd), nd.n>>

\* MATCH (x:label {keyfield: k})
Match(S, label, k) == {nd \in S : nd.label = label /\ KeyOf(nd) = k}

\* MATCH (x:label {field: v})
MatchProp(S, label, field, v) == {nd \in S : nd.label = label /\ nd.props[field] = v}

\* (from)-[:type]->(x): the nodes a relationship of the type leads to
Targets(S, R, from, type) ==
    {nd \in S : [type |-> type, from |-> Nid(from), to |-> Nid(nd)] \in R}

Min(S) == CHOOSE x \in S : \A y \in S : x <= y

RECURSIVE Number(_, _)
\* gives every row a copy number of its own, not in `used`: the set of
\* <<row, number>> pairs
Number(rows, used) ==
    IF rows = {} THEN {}
    ELSE LET r == CHOOSE x \in rows : TRUE
             i == Min({j \in 1..(Cardinality(used) + 1) : j \notin used})
         IN {<<r, i>>} \cup Number(rows \ {r}, used \cup {i})

\* The relationships a statement creates between its new node and the nodes
\* of a matched row. relspec: a set of [type, out, col], the relationship
\* leading from the new node to the node in column col of the row when out,
\* and from that node to the new one otherwise.
RelsOf(relspec, row, nid) ==
    {IF t.out THEN [type |-> t.type, from |-> nid, to |-> Nid(row[t.col])]
              ELSE [type |-> t.type, from |-> Nid(row[t.col]), to |-> nid] : t \in relspec}

\* the rows of a single MATCH
Rows(S) == {<<nd>> : nd \in S}

\* Outcome of a statement `MATCH ... CREATE (x:label props) CREATE rels`:
\* one new node per matched row, each with the relationships of relspec to
\* the nodes of its row; a uniqueness constraint on the label aborts the whole
\* transaction when two nodes would share the key.
RunCreateIn(S, R, label, props, rows, relspec) ==
    LET k == props[KeyField(label)]
        used == {nd.n : nd \in Match(S, label, k)}
        c == Cardinality(rows)
        numbered == Number(rows, used)
        new(p) == [label |-> label, n |-> p[2], props |-> props]
        violates == label \in constraints /\ c >= 1 /\ Cardinality(used) + c >= 2
    IN IF violates
       THEN [ok |-> FALSE, nodes |-> S, rels |-> R]
       ELSE [ok |-> TRUE,
             nodes |-> S \cup {new(p) : p \in numbered},
             rels |-> R \cup UNION {RelsOf(relspec, p[1], Nid(new(p))) : p \in numbered}]

\* the statement run against the store as it is
RunCreate(label, props, rows, relspec) == RunCreateIn(nodes, rels, label, props, rows, relspec)

NoRels == {}

\* the single empty row of a statement without MATCH
UnitRows == {<<>>}

\* HTTP responses
Ok(op, arg, body) == [op |-> op, arg |-> arg, status |-> 200, body |-> body]

Err(op, arg, status, detail) ==
    [op |-> op, arg |-> arg, status |-> status, body |-> [detail |-> detail]]

\* The detail of the 400 a create handler answers when the store rejects the
\* statement for a uniqueness constraint, as its words: the handler's prefix
\* and str(e) of the driver's ConstraintError, which carries the store's
\* status code and message.
DuplicateKeyText ==
    <<"Error", "creating", "{code:", "Neo.ClientError.Schema.ConstraintValidationFailed}",
      "{message:", "Node", "already", "exists", "with", "label", "and", "property}">>

\* the detail when the store cannot be reached
UnavailableText == <<"Error", "creating", "Couldn't", "connect", "to", "the", "store">>

\* A create handler: run the statement, return the request body on success,
\* turn any exception into a 400.
CreateEffect(op, label, payload, rows, relspec) ==
    \E out \in {RunCreate(label, payload, rows, relspec)} :
    /\ Cardinality(out.nodes) <= MaxNodes
    /\ nodes' = out.nodes
    /\ rels' = out.rels
    /\ resp' = IF out.ok THEN Ok(op, payload, payload)
               ELSE Err(op, payload, 400, DuplicateKeyText)

CreateHandler(op, label, payload, rows, relspec) ==
    /\ CreateEffect(op, label, payload, rows, relspec)
    /\ UNCHANGED <<constraints, ogmVars, envVars>>

\* A get-by-key handler: 404 when the query returns no row, else the first row.
GetHandler(op, label, k) ==
    LET found == Match(nodes, label, k) IN
    /\ \/ /\ found = {}
          /\ resp' = Err(op, k, 404, "not found")
       \/ \E nd \in found : resp' = Ok(op, k, nd.props)
    /\ UNCHANGED <<nodes, rels, constraints, ogmVars, envVars>>

(***************************************************************************)
(* Request payloads                                                        *)
(***************************************************************************)
\* entities are created under StoredKeys only, so a reference to another
\* key names no node
StoredKeys == {"k1"}

UserPayloads == [id : StoredKeys, email : Vals, displayName : UserNames]

SessionPayloads == [sessionId : StoredKeys, sessionName : {"a"}, createdBy : Names]

ClassifierPayloads == [id : StoredKeys, name : Vals]

EnricherPayloads == [name : StoredKeys, searchTerm : Vals]

BGSRecordPayloads == [bgsId : StoredKeys, bgsReference : Vals]

(***************************************************************************)
(* Entity endpoints                                                        *)
(***************************************************************************)
create_user(user) ==
    CreateHandler("create_user", "User", user, UnitRows, NoRels)

get_user(user_id) == GetHandler("get_user", "User", user_id)

create_folder(folder) ==
    CreateHandler("create_folder", "Folder", folder, UnitRows, NoRels)

get_folder(folder_id) == GetHandler("get_folder", "Folder", folder_id)

create_classifier(classifier) ==
    CreateHandler("create_classifier", "Classifier", classifier, UnitRows, NoRels)

get_classifier(classifier_id) == GetHandler("get_classifier", "Classifier", classifier_id)

create_enricher(enricher) ==
    CreateHandler("create_enricher", "Enricher", enricher, UnitRows, NoRels)

get_enricher(enricher_name) == GetHandler("get_enricher", "Enricher", enricher_name)

create_bgs_record(bgs_record) ==
    CreateHandler("create_bgs_record", "BGSRecord", bgs_record, UnitRows, NoRels)

get_bgs_record(bgs_id) == GetHandler("get_bgs_record", "BGSRecord", bgs_id)

SessionRels == {[type |-> "CREATED_BY", out |-> TRUE, col |-> 1]}

\* MATCH (u:User {displayName: $createdBy}) CREATE (s:Session ...) CREATE (s)-[:CREATED_BY]->(u)
create_session(session) ==
    CreateHandler("create_session", "Session", session,
                  Rows(MatchProp(nodes, "User", "displayName", session.createdBy)),
                  SessionRels)

\* MATCH (s:Session {sessionId: ...}) MATCH (s)-[:CREATED_BY]->(u:User)
get_session(session_id) ==
    LET rows == {<<s, u>> \in Match(nodes, "Session", session_id) \X nodes :
                    u \in Targets(nodes, rels, s, "CREATED_BY") /\ u.label = "User"}
    IN
    /\ \/ /\ rows = {}
          /\ resp' = Err("get_session", session_id, 404, "not found")
       \/ \E row \in rows :
             resp' = Ok("get_session", session_id,
                        [session_name |-> row[1].props.sessionName,
                         session_id |-> row[1].props.sessionId,
                         created_by |-> row[2].props.displayName])
    /\ UNCHANGED <<nodes, rels, constraints, ogmVars, envVars>>

(***************************************************************************)
(* Document endpoints                                                      *)
(***************************************************************************)
\* CREATE (d)-[:CREATED_BY]->(u)  CREATE (d)-[:STORED_IN]->(f)
DocumentRels ==
    {[type |-> "CREATED_BY", out |-> TRUE, col |-> 1],
     [type |-> "STORED_IN", out |-> TRUE, col |-> 2]}

\* create_document as it would be if the Document were created whether or
\* not the User and the Folder are matched
create_document_unmatched(document) ==
    LET rows == Match(nodes, "User", document.createdBy)
                    \X Match(nodes, "Folder", document.parentReference_id)
    IN IF rows = {}
       THEN CreateHandler("create_document", "Document", document, UnitRows, NoRels)
       ELSE CreateHandler("create_document", "Document", document, rows, DocumentRels)

\* MATCH (u:User {id: $createdBy}) MATCH (f:Folder {id: $parentReference_id})
\* CREATE (d:Document {...}) ...; the handler returns the request body
\* whenever the statement raised nothing.
create_document(document) ==
    CreateHandler("create_document", "Document", document,
                  Match(nodes, "User", document.createdBy)
                      \X Match(nodes, "Folder", document.parentReference_id),
                  DocumentRels)

get_document(document_id) == GetHandler("get_document", "Document", document_id)

\* DocumentCreate: parentReference_id, createdBy and lastModifiedBy are
\* declared without a default, like the document's own fields
DocumentCreate(body) ==
    {"id", "name", "createdBy", "lastModifiedBy", "parentReference_id"} \subseteq DOMAIN body

\* POST /documents/: a body DocumentCreate rejects is answered 422 before the
\* handler is entered
post_documents(body) ==
    IF DocumentCreate(body) THEN create_document(body)
    ELSE /\ resp' = Err("create_document", body, 422, "Field required")
         /\ UNCHANGED <<nodes, rels, constraints, ogmVars, envVars>>

RECURSIVE RunBulk(_, _)
\* UNWIND $documents AS doc MATCH (u:User ..) MATCH (f:Folder ..) CREATE ..:
\* the documents in turn, each created once for every row its two MATCHes
\* find, none for a document without rows; count is count(d)
RunBulk(st, documents) ==
    IF documents = <<>> THEN st
    ELSE LET doc == Head(documents)
             rows == Match(st.nodes, "User", doc.createdBy)
                         \X Match(st.nodes, "Folder", doc.parentReference_id)
             out == RunCreateIn(st.nodes, st.rels, "Document", doc, rows, DocumentRels)
         IN RunBulk([ok |-> st.ok /\ out.ok, nodes |-> out.nodes, rels |-> out.rels,
                     count |-> st.count + Cardinality(rows)],
                    Tail(documents))

\* the handler as it would be if execute_write_query returned the records
bulk_migrate_documents_records(documents) ==
    \E out \in {RunBulk([ok |-> TRUE, nodes |-> nodes, rels |-> rels, count |-> 0],
                        documents)} :
    /\ Cardinality(out.nodes) <= MaxNodes
    /\ nodes' = IF out.ok THEN out.nodes ELSE nodes
    /\ rels' = IF out.ok THEN out.rels ELSE rels
    /\ resp' = IF out.ok
               THEN Ok("bulk_migrate_documents", documents, [count |-> out.count])
               ELSE Err("bulk_migrate_documents", documents, 400, DuplicateKeyText)
    /\ UNCHANGED <<constraints, ogmVars, envVars>>

\* POST /migrate/bulk-documents: one write transaction for the batch. Once
\* it has committed, the handler reads result[0] of the driver's result
\* object, which is not subscriptable; the TypeError is raised inside the
\* try block and answered 400 like a failure of the statement.
bulk_migrate_documents(documents) ==
    \E out \in {RunBulk([ok |-> TRUE, nodes |-> nodes, rels |-> rels, count |-> 0],
                        documents)} :
    /\ Cardinality(out.nodes) <= MaxNodes
    /\ nodes' = IF out.ok THEN out.nodes ELSE nodes
    /\ rels' = IF out.ok THEN out.rels ELSE rels
    /\ resp' = IF out.ok
               THEN Err("bulk_migrate_documents", documents, 400,
                        "Error migrating documents: 'Result' object is not subscriptable")
               ELSE Err("bulk_migrate_documents", documents, 400, DuplicateKeyText)
    /\ UNCHANGED <<constraints, ogmVars, envVars>>

\* the handler as it would be if `properties.pop('id')` were missing
update_document_withId(document_id, document) ==
    LET found == Match(nodes, "Document", document_id)
        set(d) == [d EXCEPT !.props = document]
    IN
    /\ nodes' = (nodes \ found) \cup {set(d) : d \in found}
    /\ rels' = rels
    /\ resp' = Ok("update_document",
                  [document_id |-> document_id, document |-> document], document)
    /\ UNCHANGED <<constraints, ogmVars, envVars>>

\* MATCH (d:Document {id: $document_id}) SET d += $properties, the properties
\* being the request body without its id. execute_write_query returns the
\* driver's result object, which is never falsy, so `if not result` raises no
\* 404 and the handler returns the request body.
update_document(document_id, document) ==
    LET found == Match(nodes, "Document", document_id)
        properties == [f \in DOMAIN document \ {"id"} |-> document[f]]
        set(d) == [d EXCEPT !.props =
                      [f \in DOMAIN d.props \cup DOMAIN properties |->
                          IF f \in DOMAIN properties THEN properties[f] ELSE d.props[f]]]
    IN
    /\ nodes' = (nodes \ found) \cup {set(d) : d \in found}
    /\ rels' = rels
    /\ resp' = Ok("update_document",
                  [document_id |-> document_id, document |-> document], document)
    /\ UNCHANGED <<constraints, ogmVars, envVars>>

\* the relationships that touch none of the nodes
Detach(R, S) ==
    LET gone == {Nid(nd) : nd \in S}
    IN {r \in R : r.from \notin gone /\ r.to \notin gone}

\* the handler as it would be with DELETE in place of DETACH DELETE: the
\* statement fails on a node that has relationships
delete_document_attached(document_id) ==
    LET found == Match(nodes, "Document", document_id)
        free == Detach(rels, found) = rels
    IN
    /\ nodes' = IF free THEN nodes \ found ELSE nodes
    /\ rels' = rels
    /\ resp' = Err("delete_document", document_id, 500, "Internal Server Error")
    /\ UNCHANGED <<constraints, ogmVars, envVars>>

\* MATCH (d:Document {id: $document_id}) DETACH DELETE d RETURN count(d).
\* The statement commits inside execute_write_query; the handler then
\* evaluates `not result or result[0][...]` on the driver's result object,
\* which is not falsy and not subscriptable: the TypeError is not caught and
\* the request ends 500.
delete_document(document_id) ==
    LET found == Match(nodes, "Document", document_id) IN
    /\ nodes' = nodes \ found
    /\ rels' = Detach(rels, found)
    /\ resp' = Err("delete_document", document_id, 500, "Internal Server Error")
    /\ UNCHANGED <<constraints, ogmVars, envVars>>

MetadataRels == {[type |-> "HAS_METADATA", out |-> FALSE, col |-> 1]}

\* MATCH (d:Document {id: $documentId}) CREATE (fm:FileMetadata ...) CREATE (d)-[:HAS_METADATA]->(fm)
create_file_metadata(metadata) ==
    CreateHandler("create_file_metadata", "FileMetadata", metadata,
                  Rows(Match(nodes, "Document", metadata.documentId)), MetadataRels)

VersionRels == {[type |-> "HAS_VERSION", out |-> FALSE, col |-> 1]}

create_version(version) ==
    CreateHandler("create_version", "Version", version,
                  Rows(Match(nodes, "Document", version.documentId)), VersionRels)

BGSClassificationRels == {[type |-> "HAS_BGS_CLASSIFICATION", out |-> FALSE, col |-> 1]}

create_bgs_classification(bgs_classification) ==
    CreateHandler("create_bgs_classification", "BGSClassification", bgs_classification,
                  Rows(Match(nodes, "Document", bgs_classification.documentId)),
                  BGSClassificationRels)

UserEditRels ==
    {[type |-> "HAS_USER_EDIT", out |-> FALSE, col |-> 1],
     [type |-> "EDITED_BY", out |-> TRUE, col |-> 2]}

\* MATCH (d:Document {id: $documentId}) MATCH (u:User {id: $editedBy}) CREATE (ue:UserEdit ...)
create_user_edit(user_edit) ==
    CreateHandler("create_user_edit", "UserEdit", user_edit,
                  Match(nodes, "Document", user_edit.documentId)
                      \X Match(nodes, "User", user_edit.editedBy),
                  UserEditRels)

\* The rows of the export statement: every MATCH is mandatory.
ExportRows(document_id) ==
    UNION {{d} \X Targets(nodes, rels, d, "HAS_METADATA")
               \X Targets(nodes, rels, d, "HAS_VERSION")
               \X Targets(nodes, rels, d, "CREATED_BY")
               \X Targets(nodes, rels, d, "STORED_IN") :
           d \in Match(nodes, "Document", document_id)}

\* the composed document of GET /export/document/{id}
ExportBody(row) ==
    LET doc == row[1].props
        fm == row[2].props
        version == row[3].props
        user == row[4].props
        folder == row[5].props
    IN [id |-> doc.id,
        name |-> doc.name,
        type |-> fm.mimeType,
        createdBy |-> [id |-> user.id, email |-> user.email,
                       displayName |-> user.displayName],
        lastModifiedBy |-> [id |-> user.id, email |-> user.email,
                            displayName |-> user.displayName],
        parentReference |-> [id |-> folder.id, name |-> folder.name],
        eTag |-> version.eTag,
        file |-> [mimeType |-> fm.mimeType]]

\* GET /export/document/{id}: the 404 raised for an empty result is raised
\* inside the try block, whose `except Exception` turns it into a 400.
get_document_json(document_id) ==
    LET rows == ExportRows(document_id) IN
    /\ \/ /\ rows = {}
          /\ resp' = Err("get_document_json", document_id, 400,
                         "Error retrieving document JSON")
       \/ \E row \in rows : resp' = Ok("get_document_json", document_id, ExportBody(row))
    /\ UNCHANGED <<nodes, rels, constraints, ogmVars, envVars>>

ClassifierDataRels == {[type |-> "HAS_DATA", out |-> FALSE, col |-> 1]}

\* MATCH (c:Classifier {id: $classifierId}) CREATE (cd:ClassifierData ...)
\* CREATE (c)-[:HAS_DATA]->(cd)
create_classifier_data(classifier_data) ==
    CreateHandler("create_classifier_data", "ClassifierData", classifier_data,
                  Rows(Match(nodes, "Classifier", classifier_data.classifierId)),
                  ClassifierDataRels)

\* OPTIONAL MATCH (c)-[:HAS_DATA]->(cd) WITH c, collect({code: cd.code, ...}):
\* the collected maps of a classifier, each under the row it came from. A
\* classifier without data keeps one row whose cd is null, and the map of
\* nulls built from it is collected like any other map.
ClassifierDataOf(c) ==
    LET cds == Targets(nodes, rels, c, "HAS_DATA") IN
    IF cds = {} THEN [x \in {NoVal} |-> [code |-> NoVal]]
    ELSE [x \in {Nid(cd) : cd \in cds} |->
             [code |-> (CHOOSE cd \in cds : Nid(cd) = x).props.code]]

\* MATCH (c:Classifier) ... MATCH (e:Enricher): one row for every pair of a
\* classifier and an enricher
StandardRows ==
    {c \in nodes : c.label = "Classifier"} \X {e \in nodes : e.label = "Enricher"}

\* RETURN collect({id: c.id, ...}) AS classifiers, collect({searchTerm: ...})
\* AS enrichers: both lists hold one element for every row, here under the
\* row that gave it; over no rows the aggregation returns one record of two
\* empty lists.
StandardBody ==
    [classifiers |-> [row \in StandardRows |->
                         [id |-> row[1].props.id, name |-> row[1].props.name,
                          data |-> ClassifierDataOf(row[1])]],
     enrichers |-> [tags |-> <<>>,
                    searchTerms |-> [row \in StandardRows |->
                                        [name |-> row[2].props.name,
                                         searchTerm |-> row[2].props.searchTerm]]]]

\* SessionStandardResponse: the code of a ClassifierData is a str
ValidStandard(body) ==
    \A row \in DOMAIN body.classifiers :
        \A x \in DOMAIN body.classifiers[row].data :
            body.classifiers[row].data[x].code # NoVal

\* GET /export/session-standard: the record of the aggregation is always
\* there, so the handler returns its two lists; a body the response model
\* rejects is answered with a 500.
get_session_standard ==
    /\ resp' = IF ValidStandard(StandardBody)
               THEN Ok("get_session_standard", NoVal, StandardBody)
               ELSE Err("get_session_standard", NoVal, 500, "Internal Server Error")
    /\ UNCHANGED <<nodes, rels, constraints, ogmVars, envVars>>

(***************************************************************************)
(* List endpoints, the health probe and the start of the server            *)
(***************************************************************************)
\* the order of the values ORDER BY compares
SortOrder == <<"BGS borehole 426030 (SU72SE15).pdf", "a", "b", "k1", "k2", "n1", "n2">>

Rank(v) == CHOOSE i \in 1..Len(SortOrder) : SortOrder[i] = v

\* the arrangements of the nodes in a sequence
Arrangements(S) ==
    {s \in [1..Cardinality(S) -> S] : \A i, j \in 1..Cardinality(S) : s[i] = s[j] => i = j}

\* ORDER BY x.field [DESC]: the rows sorted by the one field. The statement
\* names no second sort key and Cypher leaves the order of rows with equal
\* values open, so every arrangement of them is a possible result.
OrderBy(S, field, desc) ==
    LET n == Cardinality(S)
    IN {s \in Arrangements(S) :
           \A i \in 1..(n - 1) :
              IF desc THEN Rank(s[i].props[field]) >= Rank(s[i + 1].props[field])
                      ELSE Rank(s[i].props[field]) <= Rank(s[i + 1].props[field])}

\* SKIP $offset LIMIT $limit of the ordered rows, each row the node's properties
Page(s, limit, offset) ==
    LET last == Min({offset + limit, Len(s)})
    IN [i \in 1..(IF last > offset THEN last - offset ELSE 0) |-> s[offset + i].props]

\* A list handler: MATCH (x:label) RETURN x ORDER BY x.field SKIP .. LIMIT ..
ListHandler(op, label, field, desc, limit, offset) ==
    /\ \E s \in OrderBy({nd \in nodes : nd.label = label}, field, desc) :
          resp' = Ok(op, [limit |-> limit, offset |-> offset], Page(s, limit, offset))
    /\ UNCHANGED <<nodes, rels, constraints, ogmVars, envVars>>

list_documents(limit, offset) ==
    ListHandler("list_documents", "Document", "createdDateTime", TRUE, limit, offset)

list_users(limit, offset) ==
    ListHandler("list_users", "User", "displayName", FALSE, limit, offset)

list_sessions(limit, offset) ==
    ListHandler("list_sessions", "Session", "createdAt", TRUE, limit, offset)

list_classifiers(limit, offset) ==
    ListHandler("list_classifiers", "Classifier", "name", FALSE, limit, offset)

list_bgs_records(limit, offset) ==
    ListHandler("list_bgs_records", "BGSRecord", "bgsId", FALSE, limit, offset)

\* str(idx)
Str(idx) == <<"0", "1", "2", "3", "4", "5", "6", "7", "8", "9">>[idx + 1]

RECURSIVE BuildEntries(_, _, _, _)
\* The loop of get_user_edits over the records from the i-th on: a record of
\* one of the two named documents goes under the document's name, any other
\* under str(idx) when the name has not been seen and under the name once it
\* has. An entry holds the name and, per field ISO2 and ISO4, the last code.
BuildEntries(result, i, entries, doc_names_seen) ==
    IF i > Len(result) THEN entries
    ELSE LET document_name == result[i][1].props.name
             field == result[i][2].props.field
             code == result[i][2].props.editedValue
             key == IF document_name \in {"BGS borehole 426030 (SU72SE15).pdf",
                                          "BGS borehole 15952134 (SU72SW60).pdf"}
                    THEN document_name
                    ELSE IF document_name \notin doc_names_seen THEN Str(i - 1)
                    ELSE document_name
             new == key \notin DOMAIN entries
             entry == IF new THEN [name |-> document_name, ISO2 |-> NoVal, ISO4 |-> NoVal]
                      ELSE entries[key]
             edited == IF field \in {"ISO2", "ISO4"} THEN [entry EXCEPT ![field] = code]
                       ELSE entry
         IN BuildEntries(result, i + 1,
                         [k \in DOMAIN entries \cup {key} |->
                             IF k = key THEN edited ELSE entries[k]],
                         IF new THEN doc_names_seen \cup {document_name}
                         ELSE doc_names_seen)

\* GET /export/user-edits: MATCH (d:Document)-[:HAS_USER_EDIT]->(ue:UserEdit)
\* RETURN ... ORDER BY d.name, the records of one name in any order
get_user_edits ==
    LET rows == UNION {{d} \X Targets(nodes, rels, d, "HAS_USER_EDIT") :
                       d \in {x \in nodes : x.label = "Document"}}
    IN
    /\ \E result \in {s \in Arrangements(rows) :
                         \A i \in 1..(Len(s) - 1) :
                            Rank(s[i][1].props.name) <= Rank(s[i + 1][1].props.name)} :
          resp' = Ok("get_user_edits", NoVal,
                     [entries |-> BuildEntries(result, 1, <<>>, {})])
    /\ UNCHANGED <<nodes, rels, constraints, ogmVars, envVars>>

\* lifespan: sets the global handle, then asks for the constraints; a
\* constraint statement that fails is only logged
lifespan(failed) ==
    /\ db = "None"
    /\ db' = "set"
    /\ constraints' = ConstraintLabels \ failed
    /\ UNCHANGED <<nodes, rels, resp, ogmVars, sessions, call, batch, procs>>

\* get_db, the dependency of every endpoint: without the handle the request
\* ends 500 before the handler's body runs
get_db(op) ==
    /\ db = "None"
    /\ resp' = Err(op, NoVal, 500, "Database not connected")
    /\ UNCHANGED <<nodes, rels, constraints, db, sessions, call, batch, ogmVars, procs>>

\* GET /health once get_db has returned the handle: the probe query runs
\* inside the try; storeUp says whether the store answers it. The timestamp
\* and the error text of the payload are left out.
health_check(storeUp) ==
    /\ db = "set"
    /\ resp' = Ok("health_check", NoVal,
                  IF storeUp THEN [status |-> "healthy", database |-> "connected"]
                  ELSE [status |-> "unhealthy", database |-> "disconnected"])
    /\ UNCHANGED <<nodes, rels, constraints, ogmVars, envVars>>

(***************************************************************************)
(* The adapter Neo4jConnection, one step per entry to and exit from the    *)
(* `with self.driver.session() as session:` block                          *)
(*   call: [pc, fn, stmt, outcome, result]; pc is "idle" outside a call,   *)
(*   "run" inside the block before the statement, "exit" once the body has *)
(*   returned or raised.                                                   *)
(***************************************************************************)
AdapterFns == {"execute_query", "execute_write_query"}

\* `with self.driver.session() as session:` -- a session is opened
open_session(fn, stmt) ==
    /\ call.pc = "idle"
    /\ sessions' = sessions + 1
    /\ call' = [pc |-> "run", fn |-> fn, stmt |-> stmt, outcome |-> "none", result |-> {}]
    /\ UNCHANGED <<apiVars, ogmVars, db, batch, procs>>

\* What the body of the block does to the store and how it ends: a MATCH
\* returns its rows, a CREATE runs in a transaction that the constraint may
\* abort; when the store does not answer, the statement raises.
BodyOutcome(stmt, storeUp) ==
    IF ~storeUp
    THEN [outcome |-> "raised", result |-> {}, nodes |-> nodes, rels |-> rels]
    ELSE IF stmt.kind = "match"
    THEN LET found == {nd.props : nd \in Match(nodes, stmt.label, stmt.key)}
         IN [outcome |-> IF found = {} THEN "empty" ELSE "rows", result |-> found,
             nodes |-> nodes, rels |-> rels]
    ELSE LET out == RunCreate(stmt.label, stmt.props, UnitRows, NoRels)
         IN [outcome |-> IF out.ok THEN "result" ELSE "raised", result |-> {},
             nodes |-> out.nodes, rels |-> out.rels]

\* the adapter as it would be with `session = self.driver.session()` and a
\* close() after the statement in place of the with block: a statement that
\* raises leaves the function at once
run_statement_unscoped(storeUp) ==
    /\ call.pc = "run"
    /\ \E b \in {BodyOutcome(call.stmt, storeUp)} :
          /\ Cardinality(b.nodes) <= MaxNodes
          /\ nodes' = b.nodes
          /\ rels' = b.rels
          /\ call' = [call EXCEPT !.pc = IF b.outcome = "raised" THEN "idle" ELSE "exit",
                                  !.outcome = b.outcome, !.result = b.result]
    /\ UNCHANGED <<constraints, resp, ogmVars, db, sessions, batch, procs>>

\* the body of the with block: session.run(...) and the list of the rows, or
\* session.write_transaction(...); returning and raising both leave through
\* the exit of the block
run_statement(storeUp) ==
    /\ call.pc = "run"
    /\ \E b \in {BodyOutcome(call.stmt, storeUp)} :
          /\ Cardinality(b.nodes) <= MaxNodes
          /\ nodes' = b.nodes
          /\ rels' = b.rels
          /\ call' = [call EXCEPT !.pc = "exit", !.outcome = b.outcome, !.result = b.result]
    /\ UNCHANGED <<constraints, resp, ogmVars, db, sessions, batch, procs>>

\* the exit of the with block closes the session; the call then returns its
\* result or lets the exception through
close_session ==
    /\ call.pc = "exit"
    /\ sessions' = sessions - 1
    /\ call' = [call EXCEPT !.pc = "idle"]
    /\ UNCHANGED <<apiVars, ogmVars, db, batch, procs>>

(***************************************************************************)
(* The ingestion client (src/ingest.py)                                    *)
(*   batch: [pc, pos, run]; pc is "run" while main() works through the     *)
(*   batch, pos the item it is at, run the number of the run.              *)
(***************************************************************************)

\* The POSTs of main(), in order, one item for every loop: the function, the
\* endpoint's handler, label and relationships, and the fixture it sends.
BatchItems ==
    <<[fn |-> "ingest_user", op |-> "create_user", label |-> "User", relspec |-> NoRels,
       payload |-> [id |-> "k1", email |-> "a", displayName |-> "n1"]],
      [fn |-> "ingest_folder", op |-> "create_folder", label |-> "Folder", relspec |-> NoRels,
       payload |-> [id |-> "k1", name |-> "a"]],
      [fn |-> "ingest_documents", op |-> "create_document", label |-> "Document",
       relspec |-> DocumentRels,
       payload |-> [id |-> "k1", name |-> "a", createdBy |-> "k1", lastModifiedBy |-> "k1",
                    parentReference_id |-> "k1"]],
      [fn |-> "ingest_documents", op |-> "create_document", label |-> "Document",
       relspec |-> DocumentRels,
       payload |-> [id |-> "k2", name |-> "b", createdBy |-> "k1", lastModifiedBy |-> "k1",
                    parentReference_id |-> "k1"]],
      [fn |-> "ingest_file_metadata", op |-> "create_file_metadata", label |-> "FileMetadata",
       relspec |-> MetadataRels, payload |-> [documentId |-> "k1", mimeType |-> "a"]],
      [fn |-> "ingest_version", op |-> "create_version", label |-> "Version",
       relspec |-> VersionRels, payload |-> [documentId |-> "k1", eTag |-> "a"]],
      [fn |-> "ingest_session", op |-> "create_session", label |-> "Session",
       relspec |-> SessionRels,
       payload |-> [sessionId |-> "k1", sessionName |-> "a", createdBy |-> "n1"]],
      [fn |-> "ingest_classifiers", op |-> "create_classifier", label |-> "Classifier",
       relspec |-> NoRels, payload |-> [id |-> "k1", name |-> "a"]],
      [fn |-> "ingest_classifiers", op |-> "create_classifier_data", label |-> "ClassifierData",
       relspec |-> ClassifierDataRels, payload |-> [classifierId |-> "k1", code |-> "a"]],
      [fn |-> "ingest_enrichers", op |-> "create_enricher", label |-> "Enricher",
       relspec |-> NoRels, payload |-> [name |-> "k1", searchTerm |-> "a"]],
      [fn |-> "ingest_bgs_classifications", op |-> "create_bgs_classification",
       label |-> "BGSClassification", relspec |-> BGSClassificationRels,
       payload |-> [documentId |-> "k1", code |-> "a"]],
      [fn |-> "ingest_user_edits", op |-> "create_user_edit", label |-> "UserEdit",
       relspec |-> UserEditRels,
       payload |-> [documentId |-> "k2", field |-> "ISO2", editedValue |-> "a",
                    editedBy |-> "k1"]]>>

\* the rows the MATCH clauses of the item's endpoint find
ItemRows(item) ==
    CASE item.op = "create_document" ->
            Match(nodes, "User", item.payload.createdBy)
                \X Match(nodes, "Folder", item.payload.parentReference_id)
      [] item.op \in {"create_file_metadata", "create_version", "create_bgs_classification"} ->
            Rows(Match(nodes, "Document", item.payload.documentId))
      [] item.op = "create_session" ->
            Rows(MatchProp(nodes, "User", "displayName", item.payload.createdBy))
      [] item.op = "create_classifier_data" ->
            Rows(Match(nodes, "Classifier", item.payload.classifierId))
      [] item.op = "create_user_edit" ->
            Match(nodes, "Document", item.payload.documentId)
                \X Match(nodes, "User", item.payload.editedBy)
      [] OTHER -> UnitRows

\* text contains the phrase, word for word
Contains(text, phrase) ==
    \E i \in 1..(Len(text) - Len(phrase) + 1) :
       SubSeq(text, i, i + Len(phrase) - 1) = phrase

\* the words the client looks for in the text of a 400
SkipPhrase == <<"Constraint", "violation">>

\* `e.response.status_code == 400 and "Constraint violation" in e.response.text`
Skips(r) == r.status = 400 /\ Contains(r.body.detail, SkipPhrase)

\* the number of runs of main()
MaxRuns == 2

\* main() is started
ingest_main ==
    /\ batch.pc \in {"idle", "done", "aborted"}
    /\ batch.run < MaxRuns
    /\ batch' = [pc |-> "run", pos |-> 1, run |-> batch.run + 1]
    /\ UNCHANGED <<apiVars, ogmVars, db, sessions, call, procs>>

\* One POST of the batch: the endpoint's handler answers as CreateHandler
\* does (400 also when the store cannot be reached); make_request raises
\* HTTPError for the 400, which the ingest function swallows when Skips
\* holds and re-raises otherwise, ending main().
ingest_step(storeUp) ==
    /\ batch.pc = "run"
    /\ LET item == BatchItems[batch.pos] IN
       \E out \in {IF storeUp
                    THEN RunCreate(item.label, item.payload, ItemRows(item), item.relspec)
                    ELSE [ok |-> FALSE, nodes |-> nodes, rels |-> rels]} :
       \E r \in {IF out.ok THEN Ok(item.op, item.payload, item.payload)
                  ELSE Err(item.op, item.payload, 400,
                           IF storeUp THEN DuplicateKeyText ELSE UnavailableText)} :
          /\ nodes' = out.nodes
          /\ rels' = out.rels
          /\ resp' = r
          /\ batch' = IF r.status = 200 \/ Skips(r)
                      THEN IF batch.pos = Len(BatchItems)
                           THEN [batch EXCEPT !.pc = "verify"]
                           ELSE [batch EXCEPT !.pos = batch.pos + 1]
                      ELSE [batch EXCEPT !.pc = "aborted"]
    /\ UNCHANGED <<constraints, ogmVars, db, sessions, call, procs>>

\* verify_nodes and verify_ingestion: the counts are only logged; the GETs of
\* the export endpoints raise on an error response. The export of the first
\* document is answered by get_document_json; exportsOk stands for the
\* answers of the other export endpoints.
verify_ingestion(exportsOk) ==
    /\ batch.pc = "verify"
    /\ \E r \in {IF ExportRows("k1") = {}
                  THEN Err("get_document_json", "k1", 400, "Error retrieving document JSON")
                  ELSE Ok("get_document_json", "k1",
                          ExportBody(CHOOSE row \in ExportRows("k1") : TRUE))} :
          /\ resp' = r
          /\ batch' = [batch EXCEPT !.pc = IF r.status = 200 /\ exportsOk
                                           THEN "done" ELSE "aborted"]
    /\ UNCHANGED <<nodes, rels, constraints, ogmVars, db, sessions, call, procs>>

(***************************************************************************)
(* The OGM store (src/models/models.py) and the document service           *)
(* (src/services/services.py)                                              *)
(*   node: [label, props]; rel: [type, from, to] with from/to the          *)
(*   <<label, key>> of a node.                                             *)
(***************************************************************************)
\* the unique_index property of each model class
OKeyField(label) ==
    CASE label \in {"User", "Folder", "Document"} -> "uid"
      [] label = "Session" -> "sessionId"
      [] OTHER -> "documentId"

OKeyOf(nd) == nd.props[OKeyField(nd.label)]

ONid(nd) == <<nd.label, OKeyOf(nd)>>

\* Model.nodes.get_or_none(key=k): the nodes of the label with the key
OMatch(S, label, k) == {nd \in S : nd.label = label /\ OKeyOf(nd) = k}

\* save() as it would be if it merged into the node that has the key
Save_merge(st, label, props) ==
    [ok |-> TRUE,
     st |-> [n |-> (st.n \ OMatch(st.n, label, props[OKeyField(label)]))
                      \cup {[label |-> label, props |-> props]},
             r |-> st.r]]

\* Model(**props).save() of a new node: the unique index the model class
\* declares (installed by Neo4jOGMConnection.install_all_labels) rejects a
\* second node with the key (neomodel raises UniqueProperty)
Save(st, label, props) ==
    IF OMatch(st.n, label, props[OKeyField(label)]) # {}
    THEN [ok |-> FALSE, st |-> st]
    ELSE [ok |-> TRUE,
          st |-> [n |-> st.n \cup {[label |-> label, props |-> props]}, r |-> st.r]]

\* the upsert as it would be if it wrote the payload's attributes over the
\* node it found
GetOrCreate_overwrite(st, label, props) ==
    [ok |-> TRUE,
     st |-> [n |-> (st.n \ OMatch(st.n, label, props[OKeyField(label)]))
                      \cup {[label |-> label, props |-> props]},
             r |-> st.r]]

\* node = Model.nodes.get_or_none(key); if not node: node = Model(...).save()
GetOrCreate(st, label, props) ==
    IF OMatch(st.n, label, props[OKeyField(label)]) # {}
    THEN [ok |-> TRUE, st |-> st]
    ELSE Save(st, label, props)

\* connect as it would be if the session were never connected
Connect_dropSession(st, type, docKey, label, k) ==
    [ok |-> TRUE,
     st |-> [n |-> st.n,
             r |-> IF type = "IN_SESSION" THEN st.r
                   ELSE st.r \cup {[type |-> type, from |-> <<"Document", docKey>>,
                                     to |-> <<label, k>>]}]]

\* document.<relationship>.connect(node), the nodes being those the earlier
\* steps found or saved
Connect(st, type, docKey, label, k) ==
    [ok |-> TRUE,
     st |-> [n |-> st.n,
             r |-> st.r \cup {[type |-> type, from |-> <<"Document", docKey>>,
                               to |-> <<label, k>>]}]]

\* the node properties the service builds from the flat payload
CreatedByProps(data) == [uid |-> data.createdBy_id, email |-> data.createdBy_email]

LastModifiedByProps(data) ==
    [uid |-> data.lastModifiedBy_id, email |-> data.lastModifiedBy_email]

FolderProps(data) == [uid |-> data.parentReference_id, name |-> data.parentReference_name]

SessionProps(data) == [sessionId |-> data.sessionId, sessionName |-> data.sessionName]

DocumentProps(data) == [uid |-> data.id, name |-> data.name]

FileMetadataProps(data) ==
    [documentId |-> data.file_documentId, mimeType |-> data.file_mimeType]

VersionProps(data) == [documentId |-> data.version_documentId, eTag |-> data.version_eTag]

\* the store round trips of create_complete_document_structure, in order
NSteps == 13

StepEffect(i, st, data) ==
    CASE i = 1 -> GetOrCreate(st, "User", CreatedByProps(data))
      [] i = 2 -> GetOrCreate(st, "User", LastModifiedByProps(data))
      [] i = 3 -> GetOrCreate(st, "Folder", FolderProps(data))
      [] i = 4 -> GetOrCreate(st, "Session", SessionProps(data))
      [] i = 5 -> Save(st, "Document", DocumentProps(data))
      [] i = 6 -> Save(st, "FileMetadata", FileMetadataProps(data))
      [] i = 7 -> Save(st, "Version", VersionProps(data))
      [] i = 8 -> Connect(st, "CREATED_BY", data.id, "User", data.createdBy_id)
      [] i = 9 -> Connect(st, "LAST_MODIFIED_BY", data.id, "User", data.lastModifiedBy_id)
      [] i = 10 -> Connect(st, "STORED_IN", data.id, "Folder", data.parentReference_id)
      [] i = 11 -> Connect(st, "HAS_METADATA", data.id, "FileMetadata", data.file_documentId)
      [] i = 12 -> Connect(st, "HAS_VERSION", data.id, "Version", data.version_documentId)
      [] OTHER -> Connect(st, "IN_SESSION", data.id, "Session", data.sessionId)

RECURSIVE RunSteps(_, _, _, _)
\* Runs the steps from i on. Every step commits on its own; a step that
\* raises (the unique index, or the store failing at step failAt) ends the
\* call and leaves what the earlier steps wrote.
RunSteps(st, data, i, failAt) ==
    IF i > NSteps THEN [st |-> st, status |-> "ok", error |-> NoVal]
    ELSE IF i = failAt THEN [st |-> st, status |-> "raised", error |-> "StoreUnavailable"]
    ELSE LET o == StepEffect(i, st, data) IN
         IF ~o.ok THEN [st |-> st, status |-> "raised", error |-> "UniqueProperty"]
         ELSE RunSteps(o.st, data, i + 1, failAt)

\* the call as it would be if its except clause logged the error and
\* returned the document
create_complete_document_structure_swallowed(data, failAt) ==
    \E out \in {RunSteps([n |-> onodes, r |-> orels], data, 1, failAt)} :
    /\ onodes' = out.st.n
    /\ orels' = out.st.r
    /\ ret' = [op |-> "create_complete_document_structure", arg |-> data,
               status |-> "ok", error |-> NoVal, body |-> DocumentProps(data)]
    /\ UNCHANGED <<apiVars, envVars>>

\* DocumentService.create_complete_document_structure(data); failAt = 0 is a
\* call during which the store stays reachable
create_complete_document_structure(data, failAt) ==
    \E out \in {RunSteps([n |-> onodes, r |-> orels], data, 1, failAt)} :
    /\ onodes' = out.st.n
    /\ orels' = out.st.r
    /\ ret' = [op |-> "create_complete_document_structure", arg |-> data,
               status |-> out.status, error |-> out.error,
               body |-> IF out.status = "ok" THEN DocumentProps(data) ELSE [detail |-> out.error]]
    /\ UNCHANGED <<apiVars, envVars>>

\* the absent nested object
Null == [null |-> TRUE]

\* document.<relationship>: the nodes the relationship leads to
OTargets(S, R, docKey, type) ==
    {nd \in S : [type |-> type, from |-> <<"Document", docKey>>, to |-> ONid(nd)] \in R}

\* the relationships get_document_with_relations reads, in the order of its
\* single() calls
ReadOrder == <<"CREATED_BY", "LAST_MODIFIED_BY", "STORED_IN", "HAS_METADATA", "HAS_VERSION">>

\* .single(): the related node, None when there is none; more than one raises,
\* and the except clause leaves that variable and the later ones None
Single(S, R, docKey, i) ==
    LET t(j) == OTargets(S, R, docKey, ReadOrder[j]) IN
    IF \E j \in 1..i : Cardinality(t(j)) > 1 THEN Null
    ELSE IF t(i) = {} THEN Null
    ELSE (CHOOSE nd \in t(i) : TRUE).props

\* the response as it would be if lastModifiedBy were built from the creator
ComposeBody_creatorAsModifier(S, R, document) ==
    LET created_by == Single(S, R, document.uid, 1)
        folder == Single(S, R, document.uid, 3)
        metadata == Single(S, R, document.uid, 4)
        version == Single(S, R, document.uid, 5)
        user == IF created_by # Null
                THEN [id |-> created_by.uid, email |-> created_by.email] ELSE Null
    IN [id |-> document.uid,
        name |-> document.name,
        createdBy |-> user,
        lastModifiedBy |-> user,
        parentReference |-> IF folder # Null
                            THEN [id |-> folder.uid, name |-> folder.name] ELSE Null,
        file |-> IF metadata # Null THEN [mimeType |-> metadata.mimeType] ELSE Null,
        eTag |-> IF version # Null THEN version.eTag ELSE NoVal]

\* the response dictionary of get_document_with_relations
ComposeBody(S, R, document) ==
    LET created_by == Single(S, R, document.uid, 1)
        last_modified_by == Single(S, R, document.uid, 2)
        folder == Single(S, R, document.uid, 3)
        metadata == Single(S, R, document.uid, 4)
        version == Single(S, R, document.uid, 5)
    IN [id |-> document.uid,
        name |-> document.name,
        createdBy |-> IF created_by # Null
                      THEN [id |-> created_by.uid, email |-> created_by.email] ELSE Null,
        lastModifiedBy |-> IF last_modified_by # Null
                           THEN [id |-> last_modified_by.uid, email |-> last_modified_by.email]
                           ELSE Null,
        parentReference |-> IF folder # Null
                            THEN [id |-> folder.uid, name |-> folder.name] ELSE Null,
        file |-> IF metadata # Null THEN [mimeType |-> metadata.mimeType] ELSE Null,
        eTag |-> IF version # Null THEN version.eTag ELSE NoVal]

\* DocumentService.get_document_with_relations(document_id): None when the
\* document is missing
get_document_with_relations(document_id) ==
    LET found == OMatch(onodes, "Document", document_id) IN
    /\ \/ /\ found = {}
          /\ ret' = [op |-> "get_document_with_relations", arg |-> document_id,
                     status |-> "none", error |-> NoVal, body |-> Null]
       \/ \E document \in found :
             ret' = [op |-> "get_document_with_relations", arg |-> document_id,
                     status |-> "ok", error |-> NoVal,
                     body |-> ComposeBody(onodes, orels, document.props)]
    /\ UNCHANGED <<onodes, orels, apiVars, envVars>>

(***************************************************************************)
(* Specification of the entity endpoints                                   *)
(***************************************************************************)
NoResp == [op |-> "none", arg |-> NoVal, status |-> 0, body |-> [detail |-> NoVal]]

\* create_constraints_and_indexes: every statement is tried on its own and a
\* failure is only logged, so any subset of the constraints may be in force.
InitApi(labels) ==
    /\ nodes = {}
    /\ rels = {}
    /\ constraints \in {ConstraintLabels \ failed : failed \in SUBSET labels}
    /\ resp = NoResp

InitOgm ==
    /\ onodes = {}
    /\ orels = {}
    /\ ret = [op |-> "none", arg |-> NoVal, status |-> "none", error |-> NoVal, body |-> Null]

\* the requests and calls that may be in progress at the same time
Procs == {1, 2}

\* no request has been received
NoProcs ==
    [i \in Procs |-> [pc |-> "idle", op |-> "none", label |-> NoVal, arg |-> NoVal,
                      status |-> 0, step |-> 0, looked |-> "no"]]

\* the ingestion client has not been run
NoBatch == [pc |-> "idle", pos |-> 0, run |-> 0]

\* no adapter call has been made
NoCall == [pc |-> "idle", fn |-> "none", stmt |-> NoVal, outcome |-> "none", result |-> {}]

\* the server has been started (lifespan has set db), no adapter call is in
\* progress and the ingestion client is not running
InitEnv ==
    /\ db = "set"
    /\ sessions = 0
    /\ call = NoCall
    /\ batch = NoBatch
    /\ procs = NoProcs

InitEntities == InitApi({"User", "Session"}) /\ InitOgm /\ InitEnv

NextEntities ==
    \/ \E p \in UserPayloads : create_user(p)
    \/ \E k \in Keys : get_user(k)
    \/ \E p \in SessionPayloads : create_session(p)
    \/ \E k \in Keys : get_session(k)
    \/ \E p \in EnricherPayloads : create_enricher(p)
    \/ \E k \in Keys : get_enricher(k)
    \/ \E p \in ClassifierPayloads : create_classifier(p)
    \/ \E k \in Keys : get_classifier(k)
    \/ \E p \in BGSRecordPayloads : create_bgs_record(p)
    \/ \E k \in Keys : get_bgs_record(k)

SpecEntities == InitEntities /\ [][NextEntities]_vars

(***************************************************************************)
(* Specification of the document endpoints                                 *)
(***************************************************************************)
DocUserPayloads == [id : StoredKeys, email : {"a"}, displayName : UserNames]

DocFolderPayloads == [id : StoredKeys, name : {"a"}]

DocumentPayloads ==
    [id : Keys, name : {"a"}, createdBy : Keys, lastModifiedBy : StoredKeys,
     parentReference_id : Keys]

FileMetadataPayloads == [documentId : Keys, mimeType : {"a"}]

VersionPayloads == [documentId : Keys, eTag : {"a"}]

BGSClassificationPayloads == [documentId : Keys, code : {"a"}]

UserEditPayloads ==
    [documentId : Keys, field : {"ISO2"}, editedValue : {"a"}, editedBy : Keys]

InitDocs == InitApi({"Document", "User", "Folder"}) /\ InitOgm /\ InitEnv

NextDocs ==
    \/ \E p \in DocUserPayloads : create_user(p)
    \/ \E p \in DocFolderPayloads : create_folder(p)
    \/ \E k \in Keys : get_folder(k)
    \/ \E p \in DocumentPayloads : create_document(p)
    \/ \E k \in Keys : get_document(k)
    \/ \E p \in FileMetadataPayloads : create_file_metadata(p)
    \/ \E p \in VersionPayloads : create_version(p)
    \/ \E p \in BGSClassificationPayloads : create_bgs_classification(p)
    \/ \E p \in UserEditPayloads : create_user_edit(p)
    \/ \E k \in Keys : get_document_json(k)

SpecDocs == InitDocs /\ [][NextDocs]_vars

(***************************************************************************)
(* Specification of the update and the deletion of documents               *)
(***************************************************************************)
\* documents of either id, created by the stored User in the stored Folder
EditDocumentPayloads ==
    [id : Keys, name : {"a"}, createdBy : StoredKeys, lastModifiedBy : StoredKeys,
     parentReference_id : StoredKeys]

\* the bodies of PUT /documents/{id}: another name, under either id
UpdatePayloads ==
    [id : Keys, name : {"b"}, createdBy : StoredKeys, lastModifiedBy : StoredKeys,
     parentReference_id : StoredKeys]

InitEdits == InitApi({"Document"}) /\ InitOgm /\ InitEnv

NextEdits ==
    \/ \E p \in DocUserPayloads : create_user(p)
    \/ \E p \in DocFolderPayloads : create_folder(p)
    \/ \E p \in EditDocumentPayloads : create_document(p)
    \/ \E p \in FileMetadataPayloads : create_file_metadata(p)
    \/ \E p \in VersionPayloads : create_version(p)
    \/ \E k \in Keys : get_document(k)
    \/ \E k \in Keys, p \in UpdatePayloads : update_document(k, p)
    \/ \E k \in Keys : delete_document(k)

SpecEdits == InitEdits /\ [][NextEdits]_vars

(***************************************************************************)
(* The session standard: classifiers, their data and the enrichers         *)
(***************************************************************************)
NextStandard ==
    \/ \E p \in [id : Keys, name : {"a"}] : create_classifier(p)
    \/ \E p \in [classifierId : Keys, code : Vals] : create_classifier_data(p)
    \/ \E p \in [name : StoredKeys, searchTerm : Vals] : create_enricher(p)
    \/ get_session_standard

SpecStandard == InitEntities /\ [][NextStandard]_vars

(***************************************************************************)
(* Specification of the list endpoints and the health probe                *)
(***************************************************************************)
\* two users of one display name
ListUserPayloads == [id : Keys, email : {"a"}, displayName : UserNames]

ListSessionPayloads ==
    [sessionId : Keys, sessionName : {"a"}, createdBy : UserNames, createdAt : {"a"}]

ListClassifierPayloads == [id : StoredKeys, name : Vals]

ListDocumentPayloads ==
    [id : Keys, name : {"a"}, createdBy : StoredKeys, lastModifiedBy : StoredKeys,
     parentReference_id : StoredKeys, createdDateTime : {"a"}]

\* limit is 1..100 and offset is 0 or more (Query(10, ge=1, le=100), Query(0, ge=0))
Limits == {1, 2}

Offsets == {0, 1}

ListOps ==
    {"list_documents", "list_users", "list_sessions", "list_classifiers", "list_bgs_records"}

\* the module has been imported: no handle yet, an empty store
InitReads ==
    /\ nodes = {}
    /\ rels = {}
    /\ constraints = {}
    /\ resp = NoResp
    /\ InitOgm
    /\ db = "None"
    /\ sessions = 0
    /\ call = NoCall
    /\ batch = NoBatch
    /\ procs = NoProcs

NextReads ==
    \/ lifespan({})
    \/ \E op \in ListOps \cup {"health_check", "create_user"} : get_db(op)
    \/ \E storeUp \in BOOLEAN : health_check(storeUp)
    \/ db = "set" /\ \E p \in ListUserPayloads : create_user(p)
    \/ db = "set" /\ \E p \in DocFolderPayloads : create_folder(p)
    \/ db = "set" /\ \E p \in ListDocumentPayloads : create_document(p)
    \/ db = "set" /\ \E p \in ListSessionPayloads : create_session(p)
    \/ db = "set" /\ \E p \in ListClassifierPayloads : create_classifier(p)
    \/ db = "set" /\ \E p \in BGSRecordPayloads : create_bgs_record(p)
    \/ db = "set" /\ \E limit \in Limits, offset \in Offsets : list_documents(limit, offset)
    \/ db = "set" /\ \E limit \in Limits, offset \in Offsets : list_users(limit, offset)
    \/ db = "set" /\ \E limit \in Limits, offset \in Offsets : list_sessions(limit, offset)
    \/ db = "set" /\ \E limit \in Limits, offset \in Offsets : list_classifiers(limit, offset)
    \/ db = "set" /\ \E limit \in Limits, offset \in Offsets : list_bgs_records(limit, offset)

SpecReads == InitReads /\ [][NextReads]_vars

(***************************************************************************)
(* Specification of the migration and of the documents' references         *)
(***************************************************************************)
\* documents of either id whose creator and last modifier are any key
MigratePayloads ==
    [id : Keys, name : {"a"}, createdBy : Keys, lastModifiedBy : Keys,
     parentReference_id : StoredKeys, createdDateTime : {"a"}]

\* every constraint of the start-up is in force
InitMigrate == InitApi({}) /\ InitOgm /\ InitEnv

NextMigrate ==
    \/ \E p \in DocUserPayloads : create_user(p)
    \/ \E p \in DocFolderPayloads : create_folder(p)
    \/ \E p \in MigratePayloads : post_documents(p)
    \* the body test_create_document posts: the document's own fields only
    \/ \E p \in [id : Keys, name : {"a"}, createdDateTime : {"a"}] : post_documents(p)
    \* the batches of one and of two documents last modified by their creator
    \/ \E p, q \in {d \in MigratePayloads : d.lastModifiedBy = d.createdBy} :
          \/ bulk_migrate_documents(<<p>>)
          \/ bulk_migrate_documents(<<p, q>>)
    \/ \E k \in Keys, p \in {q \in MigratePayloads : q.lastModifiedBy = "k1"} :
          update_document(k, p)
    \/ \E k \in Keys : delete_document(k)
    \/ \E p \in FileMetadataPayloads : create_file_metadata(p)
    \/ \E p \in VersionPayloads : create_version(p)
    \/ \E k \in Keys : get_document_json(k)
    \/ \E limit \in Limits, offset \in Offsets : list_documents(limit, offset)

SpecMigrate == InitMigrate /\ [][NextMigrate]_vars

(***************************************************************************)
(* Specification of the user edits and their export                        *)
(***************************************************************************)
NextUserEdits ==
    \/ \E p \in DocUserPayloads : create_user(p)
    \/ \E p \in DocFolderPayloads : create_folder(p)
    \/ \E p \in [id : Keys, name : {"a", "BGS borehole 426030 (SU72SE15).pdf"},
                 createdBy : StoredKeys, lastModifiedBy : StoredKeys,
                 parentReference_id : StoredKeys] : create_document(p)
    \/ \E p \in [documentId : Keys, field : {"ISO2", "ISO4"}, editedValue : Vals,
                 editedBy : StoredKeys] : create_user_edit(p)
    \/ get_user_edits

SpecUserEdits == InitMigrate /\ [][NextUserEdits]_vars

(***************************************************************************)
(* Specification of the adapter                                            *)
(***************************************************************************)
\* the statements the adapter is called with
ReadStatements == [kind : {"match"}, label : {"User", "BGSRecord"}, key : Keys]

WriteStatements ==
    [kind : {"create"}, label : {"User"}, props : UserPayloads]
        \cup [kind : {"create"}, label : {"BGSRecord"}, props : BGSRecordPayloads]

InitAdapter == InitApi({"User"}) /\ InitOgm /\ InitEnv

NextAdapter ==
    \/ \E stmt \in ReadStatements : open_session("execute_query", stmt)
    \/ \E stmt \in WriteStatements : open_session("execute_write_query", stmt)
    \/ \E storeUp \in BOOLEAN : run_statement(storeUp)
    \/ close_session

SpecAdapter == InitAdapter /\ [][NextAdapter]_vars

(***************************************************************************)
(* Specification of the ingestion client                                   *)
(***************************************************************************)
InitIngest == InitApi(ConstraintLabels) /\ InitOgm /\ InitEnv

NextIngest ==
    \/ ingest_main
    \/ \E storeUp \in BOOLEAN : ingest_step(storeUp)
    \/ \E exportsOk \in BOOLEAN : verify_ingestion(exportsOk)

SpecIngest == InitIngest /\ [][NextIngest]_vars

(***************************************************************************)
(* Specification of the document service                                   *)
(***************************************************************************)
\* A valid flat payload: one identity carries one set of attributes.
Payload(id, m, fd, v) ==
    [id |-> id, name |-> v,
     createdBy_id |-> "k1", createdBy_email |-> v,
     lastModifiedBy_id |-> m, lastModifiedBy_email |-> v,
     parentReference_id |-> "k1", parentReference_name |-> v,
     sessionId |-> "k1", sessionName |-> "a",
     file_documentId |-> fd, file_mimeType |-> v,
     version_documentId |-> id, version_eTag |-> v]

FlatPayloads == {Payload(id, m, fd, v) : id \in Keys, m \in Keys, fd \in Keys, v \in Vals}

\* the round trips at which the store is taken to fail: none, the first one
\* (the store is unreachable), the FileMetadata save (the Document is saved,
\* nothing is connected), and a connect halfway through the relationships
FailPoints == {0, 1, 6, 10}

InitService == InitApi({}) /\ InitOgm /\ InitEnv

NextService ==
    \/ \E data \in FlatPayloads, failAt \in FailPoints :
          create_complete_document_structure(data, failAt)
    \/ \E k \in Keys : get_document_with_relations(k)

SpecService == InitService /\ [][NextService]_vars

(***************************************************************************)
(* Two create requests at the same time                                    *)
(*   procs[i]: [pc, op, label, arg, status]; pc is "handler" from the      *)
(*   moment a worker has entered the handler until its write transaction   *)
(*   has ended and the response is written, then "answered".               *)
(*   For a call of the document service pc is "call" until it returns,     *)
(*   step is the round trip it is at, and looked is "absent" between a     *)
(*   get_or_none that found nothing and the save() that follows it.        *)
(***************************************************************************)
\* a worker receives POST /<kind>/ and enters the create handler
receive_create(i, op, label, payload) ==
    /\ procs[i].pc = "idle"
    /\ procs' = [procs EXCEPT ![i] = [pc |-> "handler", op |-> op, label |-> label,
                                      arg |-> payload, status |-> 0, step |-> 0,
                                      looked |-> "no"]]
    /\ UNCHANGED <<apiVars, ogmVars, db, sessions, call, batch>>

\* The handler's write transaction and its response, while the other request
\* is in its handler or has been answered: the store runs the two
\* transactions one after the other, in either order.
answer_create(i) ==
    /\ procs[i].pc = "handler"
    /\ \A j \in Procs : procs[j].pc # "idle"
    /\ CreateEffect(procs[i].op, procs[i].label, procs[i].arg, UnitRows, NoRels)
    /\ procs' = [procs EXCEPT ![i].pc = "answered", ![i].status = resp'.status]
    /\ UNCHANGED <<constraints, ogmVars, db, sessions, call, batch>>

\* both responses have been read
read_responses ==
    /\ \A j \in Procs : procs[j].pc = "answered"
    /\ procs' = NoProcs
    /\ UNCHANGED <<apiVars, ogmVars, db, sessions, call, batch>>

NextRace ==
    \/ \E i \in Procs, p \in UserPayloads : receive_create(i, "create_user", "User", p)
    \/ \E i \in Procs, p \in EnricherPayloads :
          receive_create(i, "create_enricher", "Enricher", p)
    \/ \E i \in Procs : answer_create(i)
    \/ read_responses

SpecRace == InitEntities /\ [][NextRace]_vars

(***************************************************************************)
(* Two calls of the document service at the same time                      *)
(***************************************************************************)
\* the node the i-th round trip looks up and saves when it finds none
StepNode(i, data) ==
    CASE i = 1 -> <<"User", CreatedByProps(data)>>
      [] i = 2 -> <<"User", LastModifiedByProps(data)>>
      [] i = 3 -> <<"Folder", FolderProps(data)>>
      [] OTHER -> <<"Session", SessionProps(data)>>

\* a caller enters create_complete_document_structure(data) for a document
\* id that is not stored and that the other caller is not creating
begin_structure(i, data) ==
    /\ procs[i].pc \in {"idle", "answered"}
    /\ OMatch(onodes, "Document", data.id) = {}
    /\ \A j \in Procs \ {i} : procs[j].pc = "call" => procs[j].arg.id # data.id
    /\ procs' = [procs EXCEPT ![i] = [pc |-> "call",
                                      op |-> "create_complete_document_structure",
                                      label |-> NoVal, arg |-> data, status |-> "none",
                                      step |-> 1, looked |-> "no"]]
    /\ UNCHANGED <<apiVars, ogmVars, db, sessions, call, batch>>

\* One round trip of a call to the store. get_or_none and the save() after
\* it are two round trips, and the other call may run between them; the
\* save() then meets the node the other call has saved and raises. A call
\* that raises returns at once, a call past its last connect returns the
\* document.
step_structure(i) ==
    LET p == procs[i]
        st == [n |-> onodes, r |-> orels]
        node == StepNode(p.step, p.arg)
        lookup == p.step <= 4 /\ p.looked = "no"
        o == IF p.step <= 4 THEN Save(st, node[1], node[2])
             ELSE StepEffect(p.step, st, p.arg)
        last == p.step = NSteps
    IN
    /\ p.pc = "call"
    /\ IF lookup
       THEN /\ procs' = [procs EXCEPT ![i] =
                           IF OMatch(onodes, node[1], node[2][OKeyField(node[1])]) # {}
                           THEN [p EXCEPT !.step = p.step + 1]
                           ELSE [p EXCEPT !.looked = "absent"]]
            /\ UNCHANGED ogmVars
       ELSE /\ onodes' = o.st.n
            /\ orels' = o.st.r
            /\ procs' = [procs EXCEPT ![i] =
                           IF ~o.ok THEN [p EXCEPT !.pc = "answered", !.status = "raised"]
                           ELSE IF last THEN [p EXCEPT !.pc = "answered", !.status = "ok"]
                           ELSE [p EXCEPT !.step = p.step + 1, !.looked = "no"]]
            /\ ret' = IF ~o.ok
                      THEN [op |-> p.op, arg |-> p.arg, status |-> "raised",
                            error |-> "UniqueProperty",
                            body |-> [detail |-> "UniqueProperty"]]
                      ELSE IF last
                      THEN [op |-> p.op, arg |-> p.arg, status |-> "ok",
                            error |-> NoVal, body |-> DocumentProps(p.arg)]
                      ELSE ret
    /\ UNCHANGED <<apiVars, db, sessions, call, batch>>

NextShared ==
    \/ \E i \in Procs, id \in Keys, v \in Vals : begin_structure(i, Payload(id, "k1", id, v))
    \/ \E i \in Procs : step_structure(i)

SpecShared == InitService /\ [][NextShared]_vars

(***************************************************************************)
(* Properties of the HTTP surface                                          *)
(***************************************************************************)
\* the label each create endpoint writes
OpLabel(op) ==
    CASE op = "create_user" -> "User"
      [] op = "create_folder" -> "Folder"
      [] op = "create_document" -> "Document"
      [] op = "create_session" -> "Session"
      [] op = "create_classifier" -> "Classifier"
      [] op = "create_enricher" -> "Enricher"
      [] op = "create_file_metadata" -> "FileMetadata"
      [] op = "create_version" -> "Version"
      [] OTHER -> "BGSRecord"

KeyedCreateOps ==
    {"create_user", "create_folder", "create_document", "create_session",
     "create_classifier", "create_enricher", "create_file_metadata", "create_version"}

\* the key a create request carries
RequestKey(r) == r.arg[KeyField(OpLabel(r.op))]

\* C1: a create call whose key is already in the store returns an error, and
\* the nodes already stored keep their attributes.
C1_DuplicateCreateRejected ==
    [][(/\ resp'.op \in KeyedCreateOps
        /\ Match(nodes, OpLabel(resp'.op), RequestKey(resp')) # {})
       => (resp'.status # 200 /\ nodes \subseteq nodes')]_vars

\* the get-by-key endpoint that reads what a create endpoint wrote
GetOpOf(op) ==
    CASE op = "create_user" -> "get_user"
      [] op = "create_session" -> "get_session"
      [] op = "create_folder" -> "get_folder"
      [] op = "create_classifier" -> "get_classifier"
      [] op = "create_enricher" -> "get_enricher"
      [] op = "create_document" -> "get_document"
      [] op = "create_bgs_record" -> "get_bgs_record"
      [] OTHER -> "none"

\* the entity a get response carries, under the field names of the request
EntityOf(r) ==
    IF r.op = "get_session"
    THEN [sessionId |-> r.body.session_id, sessionName |-> r.body.session_name,
          createdBy |-> r.body.created_by]
    ELSE r.body

\* C2: a get-by-key that immediately follows a successful create of the key
\* returns the entity that was created.
C2_GetAfterCreate ==
    [][(/\ resp.status = 200
        /\ GetOpOf(resp.op) # "none"
        /\ resp'.op = GetOpOf(resp.op)
        /\ resp'.arg = RequestKey(resp))
       => (resp'.status = 200 /\ EntityOf(resp') = resp.arg)]_vars

\* the request names a User or a Folder that is not in the store
DanglingDocument(S, document) ==
    \/ Match(S, "User", document.createdBy) = {}
    \/ Match(S, "Folder", document.parentReference_id) = {}

\* C3: create_document with an unknown createdBy or parentReference_id
\* returns an error response, never the success response.
C3_DanglingDocumentRejected ==
    [][(resp'.op = "create_document" /\ DanglingDocument(nodes, resp'.arg))
       => resp'.status = 400]_vars

\* the create request references a key that names no node
DanglingCreate(S, r) ==
    \/ r.op = "create_document" /\ DanglingDocument(S, r.arg)
    \/ /\ r.op \in {"create_file_metadata", "create_version",
                    "create_bgs_classification", "create_user_edit"}
       /\ Match(S, "Document", r.arg.documentId) = {}

\* C4: a create call that references a missing key leaves the store as it was.
C4_DanglingCreateLeavesStore ==
    [][DanglingCreate(nodes, resp') => (nodes' = nodes /\ rels' = rels)]_vars

\* a non-empty store has just been through a create_document that names an
\* unknown User
C4_Witness ==
    /\ resp.op = "create_document"
    /\ Match(nodes, "User", resp.arg.createdBy) = {}
    /\ Match(nodes, "Folder", resp.arg.parentReference_id) # {}
    /\ nodes # {}

\* C5: exporting an existing Document succeeds whatever relationships it has,
\* an absent relationship giving null in the nested fields.
C5_ExportToleratesAbsentRelations ==
    (resp.op = "get_document_json" /\ Match(nodes, "Document", resp.arg) # {})
    => /\ resp.status = 200
       /\ \A d \in Match(nodes, "Document", resp.arg) :
             /\ Targets(nodes, rels, d, "HAS_METADATA") = {} => resp.body.file = Null
             /\ Targets(nodes, rels, d, "HAS_VERSION") = {} => resp.body.eTag = NoVal
             /\ Targets(nodes, rels, d, "CREATED_BY") = {} => resp.body.createdBy = Null
             /\ Targets(nodes, rels, d, "STORED_IN") = {} => resp.body.parentReference = Null

\* C6: the export answers 404 exactly when no Document has the id.
C6_ExportNotFound ==
    resp.op = "get_document_json"
    => (resp.status = 404 <=> Match(nodes, "Document", resp.arg) = {})

(***************************************************************************)
(* Properties of the document service                                      *)
(***************************************************************************)
CreateOp == "create_complete_document_structure"

GetOp == "get_document_with_relations"

\* the composed document that carries the values of the flat payload
ExpectedBody(data) ==
    [id |-> data.id,
     name |-> data.name,
     createdBy |-> [id |-> data.createdBy_id, email |-> data.createdBy_email],
     lastModifiedBy |-> [id |-> data.lastModifiedBy_id, email |-> data.lastModifiedBy_email],
     parentReference |-> [id |-> data.parentReference_id, name |-> data.parentReference_name],
     file |-> [mimeType |-> data.file_mimeType],
     eTag |-> data.version_eTag]

\* the step reads the document a successful create has just written
ReadsBack ==
    /\ ret.op = CreateOp
    /\ ret.status = "ok"
    /\ ret'.op = GetOp
    /\ ret'.arg = ret.arg.id

\* C7 as stated: the read after a successful create returns the values of
\* the payload, whatever the store held before.
C7_RoundTripAllFields == [][ReadsBack => ret'.body = ExpectedBody(ret.arg)]_vars

\* the {id, email} object of the stored User with the key
StoredUser(S, k) ==
    LET u == (CHOOSE nd \in OMatch(S, "User", k) : TRUE).props
    IN [id |-> u.uid, email |-> u.email]

\* the {id, name} object of the stored Folder with the key
StoredFolder(S, k) ==
    LET f == (CHOOSE nd \in OMatch(S, "Folder", k) : TRUE).props
    IN [id |-> f.uid, name |-> f.name]

\* C7 as amended: the read returns the payload's document, file and version
\* values, and for createdBy, lastModifiedBy and parentReference the
\* attributes of the node stored under the payload's key; these are the
\* payload's whenever the call found no node with the key.
C7_RoundTrip ==
    [][/\ ReadsBack =>
            /\ ret'.body.id = ret.arg.id
            /\ ret'.body.name = ret.arg.name
            /\ ret'.body.file = [mimeType |-> ret.arg.file_mimeType]
            /\ ret'.body.eTag = ret.arg.version_eTag
            /\ ret'.body.createdBy = StoredUser(onodes, ret.arg.createdBy_id)
            /\ ret'.body.lastModifiedBy = StoredUser(onodes, ret.arg.lastModifiedBy_id)
            /\ ret'.body.parentReference = StoredFolder(onodes, ret.arg.parentReference_id)
       /\ (ret'.op = CreateOp /\ ret'.status = "ok") =>
            /\ OMatch(onodes, "User", ret'.arg.createdBy_id) = {}
                  => StoredUser(onodes', ret'.arg.createdBy_id)
                        = ExpectedBody(ret'.arg).createdBy
            /\ OMatch(onodes, "User", ret'.arg.lastModifiedBy_id) = {}
                  => StoredUser(onodes', ret'.arg.lastModifiedBy_id)
                        = ExpectedBody(ret'.arg).lastModifiedBy
            /\ OMatch(onodes, "Folder", ret'.arg.parentReference_id) = {}
                  => StoredFolder(onodes', ret'.arg.parentReference_id)
                        = ExpectedBody(ret'.arg).parentReference]_vars

\* a complete document has been read back whose creator was stored before
\* the document, with another email than the one the payload carried
C7_Witness ==
    /\ ret.op = GetOp
    /\ ret.status = "ok"
    /\ ret.body.createdBy # Null
    /\ ret.body.lastModifiedBy # Null
    /\ ret.body.parentReference # Null
    /\ ret.body.file # Null
    /\ ret.body.eTag # NoVal
    /\ ret.body.createdBy.email # ret.body.name

UpsertLabels == {"User", "Folder", "Session"}

\* C8: the User, Folder and Session steps are get-or-create: a node that
\* exists stays as it is and no second node with its key appears; when
\* createdBy_id = lastModifiedBy_id a successful call leaves one such User.
C8_GetOrCreate ==
    [][ret'.op = CreateOp =>
          /\ \A nd \in onodes : nd.label \in UpsertLabels => nd \in onodes'
          /\ \A nd \in onodes' :
                nd.label \in UpsertLabels
                => Cardinality(OMatch(onodes', nd.label, OKeyOf(nd))) = 1
          /\ ret'.status = "ok"
                => Cardinality(OMatch(onodes', "User", ret'.arg.createdBy_id)) = 1]_vars

\* a successful call has met a User and a Folder stored with other attributes
\* than its payload carries, the creator being also the last modifier
C8_Witness ==
    /\ ret.op = CreateOp
    /\ ret.status = "ok"
    /\ ret.arg.createdBy_id = ret.arg.lastModifiedBy_id
    /\ StoredUser(onodes, ret.arg.createdBy_id).email # ret.arg.createdBy_email
    /\ StoredFolder(onodes, ret.arg.parentReference_id).name # ret.arg.parentReference_name

\* the relationships that leave the document
DocRels(R, docKey) == {r \in R : r.from = <<"Document", docKey>>}

RelTargets(data) ==
    {<<"CREATED_BY", "User", data.createdBy_id>>,
     <<"LAST_MODIFIED_BY", "User", data.lastModifiedBy_id>>,
     <<"STORED_IN", "Folder", data.parentReference_id>>,
     <<"HAS_METADATA", "FileMetadata", data.file_documentId>>,
     <<"HAS_VERSION", "Version", data.version_documentId>>,
     <<"IN_SESSION", "Session", data.sessionId>>}

\* C10: after a successful call the new Document has exactly one target for
\* each of its six relationships, the node with the payload's key.
C10_SixRelationships ==
    (ret.op = CreateOp /\ ret.status = "ok")
    => \A t \in RelTargets(ret.arg) :
          /\ OTargets(onodes, orels, ret.arg.id, t[1]) = OMatch(onodes, t[2], t[3])
          /\ Cardinality(OTargets(onodes, orels, ret.arg.id, t[1])) = 1

\* a successful call whose last modifier is not its creator and whose
\* FileMetadata is keyed by another document id
C10_Witness ==
    /\ ret.op = CreateOp
    /\ ret.status = "ok"
    /\ ret.arg.createdBy_id # ret.arg.lastModifiedBy_id
    /\ ret.arg.file_documentId # ret.arg.id

(***************************************************************************)
(* Failures of the document service                                        *)
(***************************************************************************)
\* a node the call saves unconditionally is already stored under its key
SaveConflict(S, data) ==
    \/ OMatch(S, "Document", data.id) # {}
    \/ OMatch(S, "FileMetadata", data.file_documentId) # {}
    \/ OMatch(S, "Version", data.version_documentId) # {}

\* the Document of the payload is stored with its six relationships
Complete(S, R, data) ==
    /\ OMatch(S, "Document", data.id) # {}
    /\ \A t \in RelTargets(data) :
          [type |-> t[1], from |-> <<"Document", data.id>>, to |-> <<t[2], t[3]>>] \in R

\* C11: a call one of whose steps fails ends with the error raised: a save
\* that meets a stored key raises, a call that returns a Document has written
\* the whole structure, and a call that raised carries the error, not a
\* Document.
C11_FailureIsRaised ==
    [][ret'.op = CreateOp =>
          /\ SaveConflict(onodes, ret'.arg) => ret'.status = "raised"
          /\ ret'.status = "ok" => Complete(onodes', orels', ret'.arg)
          /\ ret'.status = "raised" =>
                (ret'.error # NoVal /\ ret'.body = [detail |-> ret'.error])]_vars

\* the store failed at a connect: the call raised with three of the six
\* relationships written
C11_Witness ==
    /\ ret.op = CreateOp
    /\ ret.status = "raised"
    /\ ret.error = "StoreUnavailable"
    /\ OMatch(onodes, "Document", ret.arg.id) # {}
    /\ ~Complete(onodes, orels, ret.arg)
    /\ OTargets(onodes, orels, ret.arg.id, "CREATED_BY") # {}

\* C12: after a call that failed on a key already stored, the store holds no
\* Document with the payload's id that lacks one of its six relationships.
C12_NoPartialDocument ==
    (ret.op = CreateOp /\ ret.status = "raised" /\ ret.error = "UniqueProperty")
    => \A d \in OMatch(onodes, "Document", ret.arg.id) :
          \A t \in RelTargets(ret.arg) : OTargets(onodes, orels, ret.arg.id, t[1]) # {}

(***************************************************************************)
(* Properties of the update and the deletion of documents                  *)
(***************************************************************************)
\* the identities of the nodes
Nids(S) == {Nid(nd) : nd \in S}

\* C13: delete_document on an existing Document removes the Document and the
\* relationships attached to it and nothing else (the related User, Folder,
\* FileMetadata and Version nodes and the other Documents stay as they are),
\* and a get_document of the id that follows answers 404.
C13_DeleteDocument ==
    [][/\ (resp'.op = "delete_document" /\ Match(nodes, "Document", resp'.arg) # {}) =>
            /\ Match(nodes', "Document", resp'.arg) = {}
            /\ nodes' \subseteq nodes
            /\ \A nd \in nodes :
                  (nd.label # "Document" \/ KeyOf(nd) # resp'.arg) => nd \in nodes'
            /\ rels' \subseteq rels
            /\ \A r \in rels :
                  r \in rels' <=> (r.from \in Nids(nodes') /\ r.to \in Nids(nodes'))
       /\ (resp.op = "delete_document" /\ resp'.op = "get_document" /\ resp'.arg = resp.arg)
            => resp'.status = 404]_vars

\* get_document has answered 404 for a deleted Document whose FileMetadata
\* and Version are still stored, beside the User, the Folder and another
\* Document that still has its relationships
C13_Witness ==
    /\ resp.op = "get_document"
    /\ resp.status = 404
    /\ Match(nodes, "FileMetadata", resp.arg) # {}
    /\ Match(nodes, "Version", resp.arg) # {}
    /\ \E d \in nodes :
          /\ d.label = "Document"
          /\ Targets(nodes, rels, d, "CREATED_BY") # {}
          /\ Targets(nodes, rels, d, "STORED_IN") # {}

\* C14: delete_document answers 404 and changes nothing when no Document has
\* the id, and answers the success message when one has.
C14_DeleteResponse ==
    [][resp'.op = "delete_document" =>
          IF Match(nodes, "Document", resp'.arg) = {}
          THEN resp'.status = 404 /\ nodes' = nodes /\ rels' = rels
          ELSE resp'.status = 200]_vars

\* C15: update_document answers 404 and creates no node when no Document has
\* the id.
C15_UpdateMissing ==
    [][(resp'.op = "update_document"
          /\ Match(nodes, "Document", resp'.arg.document_id) = {})
       => (resp'.status = 404 /\ nodes' = nodes)]_vars

\* C16: update_document on an existing Document gives the node the properties
\* of the body except id, which stays the id of the path; the node keeps its
\* CREATED_BY and STORED_IN targets, and no other node and no relationship
\* changes.
C16_UpdateDocument ==
    [][(resp'.op = "update_document"
          /\ Match(nodes, "Document", resp'.arg.document_id) # {})
       => LET k == resp'.arg.document_id
              body == resp'.arg.document
              found == Match(nodes, "Document", k)
          IN /\ Cardinality(nodes') = Cardinality(nodes)
             /\ \A nd \in nodes \ found : nd \in nodes'
             /\ \A d \in found :
                   \E e \in nodes' :
                      /\ Nid(e) = Nid(d)
                      /\ e.props.id = k
                      /\ DOMAIN e.props = DOMAIN body
                      /\ \A f \in DOMAIN body \ {"id"} : e.props[f] = body[f]
                      /\ \A t \in {"CREATED_BY", "STORED_IN"} :
                            Nids(Targets(nodes', rels', e, t)) = Nids(Targets(nodes, rels, d, t))
             /\ rels' = rels]_vars

\* a Document that has its creator and its folder carries the name of a body
\* that was sent under another id than the path's
C16_Witness ==
    /\ resp.op = "update_document"
    /\ resp.arg.document.id # resp.arg.document_id
    /\ \E d \in Match(nodes, "Document", resp.arg.document_id) :
          /\ d.props.name = resp.arg.document.name
          /\ Targets(nodes, rels, d, "CREATED_BY") # {}
          /\ Targets(nodes, rels, d, "STORED_IN") # {}

(***************************************************************************)
(* Properties of the list endpoints and the health probe                   *)
(***************************************************************************)
\* C17: two calls of a list endpoint with the same limit and offset and no
\* write in between return the same sequence, of at most limit entities.
C17_ListStable ==
    [][(/\ resp.op \in ListOps
        /\ resp.status = 200
        /\ resp'.op = resp.op
        /\ resp'.status = 200
        /\ resp'.arg = resp.arg
        /\ nodes' = nodes)
       => (resp'.body = resp.body /\ Len(resp'.body) <= resp'.arg.limit)]_vars

\* C18: GET /health never answers with an error response: its payload carries
\* the status flag and the connectivity flag, also while the global handle
\* is not set.
C18_HealthNeverFails ==
    resp.op = "health_check"
    => /\ resp.status = 200
       /\ \/ resp.body = [status |-> "healthy", database |-> "connected"]
          \/ resp.body = [status |-> "unhealthy", database |-> "disconnected"]
       /\ db = "None" => resp.body.status = "unhealthy"

(***************************************************************************)
(* Properties of the adapter                                               *)
(***************************************************************************)
\* C19: every session execute_query or execute_write_query opens is released
\* before the call returns or raises: outside a call no session is open, and
\* inside a call exactly the one it opened.
C19_SessionsReleased ==
    /\ call.pc = "idle" => sessions = 0
    /\ call.pc # "idle" => sessions = 1

\* calls have returned rows and written nodes, and the last call, a write
\* whose transaction raised, has ended
C19_Witness ==
    /\ call.pc = "idle"
    /\ call.fn = "execute_write_query"
    /\ call.outcome = "raised"
    /\ Match(nodes, call.stmt.label, KeyOf([label |-> call.stmt.label, props |-> call.stmt.props])) # {}
    /\ sessions = 0

(***************************************************************************)
(* Properties of the ingestion client                                      *)
(***************************************************************************)
\* C20: when a POST of the batch is answered with the server's duplicate-key
\* 400, the client goes on with the next item (so a second run of main()
\* over a populated store reaches the verification); any other failure ends
\* the batch at that item.
C20_DuplicateKeySkipped ==
    [][(batch.pc = "run" /\ batch' # batch) =>
          LET item == BatchItems[batch.pos]
              duplicate ==
                  /\ resp'.status = 400
                  /\ resp'.body.detail = DuplicateKeyText
                  /\ Match(nodes, item.label, item.payload[KeyField(item.label)]) # {}
          IN /\ duplicate =>
                   /\ batch'.pc \in {"run", "verify"}
                   /\ batch'.pc = "run" => batch'.pos = batch.pos + 1
             /\ (resp'.status # 200 /\ ~duplicate) =>
                   (batch'.pc = "aborted" /\ batch'.pos = batch.pos)]_vars

(***************************************************************************)
(* Properties of the session standard export                               *)
(***************************************************************************)
\* the data rows create_classifier_data attached to the classifier
ExpectedData(c) ==
    [x \in {Nid(cd) : cd \in Targets(nodes, rels, c, "HAS_DATA")} |->
        [code |-> (CHOOSE cd \in Targets(nodes, rels, c, "HAS_DATA") : Nid(cd) = x).props.code]]

\* C21: GET /export/session-standard answers 200 and, for every Classifier
\* of the store, holds an entry for it whose data array is exactly the
\* ClassifierData rows attached to it, none included, whatever the number of
\* Enricher nodes.
C21_StandardData ==
    [][resp'.op = "get_session_standard" =>
          /\ resp'.status = 200
          /\ \A c \in {x \in nodes : x.label = "Classifier"} :
                \E row \in DOMAIN resp'.body.classifiers :
                    /\ resp'.body.classifiers[row].id = c.props.id
                    /\ resp'.body.classifiers[row].data = ExpectedData(c)]_vars

\* C30: GET /export/session-standard answers 200 with every Classifier of
\* the store exactly once in classifiers and every Enricher exactly once in
\* enrichers.searchTerms, for any number of either.
C30_StandardOnce ==
    [][resp'.op = "get_session_standard" =>
          /\ resp'.status = 200
          /\ \A c \in {x \in nodes : x.label = "Classifier"} :
                Cardinality({row \in DOMAIN resp'.body.classifiers : row[1] = c}) = 1
          /\ \A e \in {x \in nodes : x.label = "Enricher"} :
                Cardinality({row \in DOMAIN resp'.body.enrichers.searchTerms :
                                 row[2] = e}) = 1]_vars

(***************************************************************************)
(* Properties of the documents' metadata, versions and references          *)
(***************************************************************************)
\* C22: in every reachable state each Document has at most one FileMetadata
\* through HAS_METADATA and at most one Version through HAS_VERSION, in the
\* store of the endpoints and in the store of the service alike.
C22_OneMetadataOneVersion ==
    /\ \A d \in {x \in nodes : x.label = "Document"} :
          /\ Cardinality(Targets(nodes, rels, d, "HAS_METADATA")) <= 1
          /\ Cardinality(Targets(nodes, rels, d, "HAS_VERSION")) <= 1
    /\ \A d \in {x \in onodes : x.label = "Document"} :
          /\ Cardinality(OTargets(onodes, orels, OKeyOf(d), "HAS_METADATA")) <= 1
          /\ Cardinality(OTargets(onodes, orels, OKeyOf(d), "HAS_VERSION")) <= 1

(***************************************************************************)
(* Properties of requests made at the same time                            *)
(***************************************************************************)
\* C23: of two create requests for the same kind and key made at the same
\* time, the one answered first succeeds when the key is unused, and the one
\* answered after a success gets an error and leaves exactly one node with
\* the key, holding the attributes of the successful request.
C23_OneOfTwoCreates ==
    [][\A i \in Procs : \A j \in Procs \ {i} :
          LET k == procs[i].arg[KeyField(procs[i].label)] IN
          (/\ procs[i].pc = "handler"
           /\ procs'[i].pc = "answered"
           /\ procs[j].label = procs[i].label
           /\ procs[j].arg[KeyField(procs[j].label)] = k) =>
              /\ (procs[j].pc = "handler" /\ Match(nodes, procs[i].label, k) = {}) =>
                    procs'[i].status = 200
              /\ (procs[j].pc = "answered" /\ procs[j].status = 200) =>
                    /\ procs'[i].status # 200
                    /\ \E nd \in nodes' :
                          /\ Match(nodes', procs[i].label, k) = {nd}
                          /\ nd.props = procs[j].arg]_vars

\* a body with the document's own fields and none of the three references
OwnFieldsOnly(body) ==
    /\ {"id", "name"} \subseteq DOMAIN body
    /\ DOMAIN body \cap {"createdBy", "lastModifiedBy", "parentReference_id"} = {}

\* C24: POST /documents/ answers 200 or 201 to a body with the document's
\* own fields but no createdBy, lastModifiedBy or parentReference_id, and a
\* GET /documents/ that follows returns the created document.
C24_TestPayloadAccepted ==
    [][/\ (resp'.op = "create_document" /\ OwnFieldsOnly(resp'.arg)) =>
             resp'.status \in {200, 201}
       /\ (/\ resp.op = "create_document"
           /\ OwnFieldsOnly(resp.arg)
           /\ resp'.op = "list_documents"
           /\ resp'.arg.offset = 0
           /\ Cardinality({d \in nodes : d.label = "Document"}) <= resp'.arg.limit) =>
             \E i \in DOMAIN resp'.body : resp'.body[i].id = resp.arg.id]_vars

\* C25: bulk_migrate_documents answers with its success response only if
\* every document of the batch has been created by the request, with its
\* CREATED_BY and STORED_IN relationships; a batch with a document whose User
\* or Folder does not exist is not answered with success.
C25_BulkSuccessIsComplete ==
    [][(resp'.op = "bulk_migrate_documents" /\ resp'.status = 200) =>
          \A i \in DOMAIN resp'.arg :
              /\ Match(nodes, "User", resp'.arg[i].createdBy) # {}
              /\ Match(nodes, "Folder", resp'.arg[i].parentReference_id) # {}
              /\ \E d \in nodes' \ nodes :
                    /\ d.label = "Document"
                    /\ d.props = resp'.arg[i]
                    /\ Targets(nodes', rels', d, "CREATED_BY") # {}
                    /\ Targets(nodes', rels', d, "STORED_IN") # {}]_vars

\* a batch of a document whose User does not exist and a document that has
\* been created with its relationships was answered, and not with success
C25_Witness ==
    /\ resp.op = "bulk_migrate_documents"
    /\ resp.status # 200
    /\ \E i \in DOMAIN resp.arg, j \in DOMAIN resp.arg :
          /\ Match(nodes, "User", resp.arg[i].createdBy) = {}
          /\ Match(nodes, "Document", resp.arg[i].id) = {}
          /\ \E d \in Match(nodes, "Document", resp.arg[j].id) :
                /\ d.props = resp.arg[j]
                /\ Targets(nodes, rels, d, "CREATED_BY") # {}
                /\ Targets(nodes, rels, d, "STORED_IN") # {}

\* C26: in the composed export, createdBy is the creator of the document and
\* lastModifiedBy its last modifier, so the two ids differ when the two
\* users differ; for GET /export/document/{id} and for
\* get_document_with_relations.
C26_LastModifierExported ==
    [][/\ (resp'.op = "get_document_json" /\ resp'.status = 200) =>
             \E d \in Match(nodes, "Document", resp'.arg) :
                 /\ resp'.body.createdBy.id = d.props.createdBy
                 /\ resp'.body.lastModifiedBy.id = d.props.lastModifiedBy
                 /\ d.props.createdBy # d.props.lastModifiedBy =>
                       resp'.body.createdBy.id # resp'.body.lastModifiedBy.id
       /\ (ret'.op = "get_document_with_relations" /\ ret'.status = "ok") =>
             /\ \A u \in OTargets(onodes, orels, ret'.arg, "CREATED_BY") :
                   ret'.body.createdBy.id = OKeyOf(u)
             /\ \A u \in OTargets(onodes, orels, ret'.arg, "LAST_MODIFIED_BY") :
                   ret'.body.lastModifiedBy.id = OKeyOf(u)]_vars

\* C28: in every reachable state the createdBy property of a Document is the
\* id of the User its CREATED_BY relationship leads to, and its
\* parentReference_id the id of the Folder its STORED_IN relationship leads to.
C28_PropertiesMatchRelationships ==
    \A d \in {x \in nodes : x.label = "Document"} :
        /\ \E u \in Targets(nodes, rels, d, "CREATED_BY") : u.props.id = d.props.createdBy
        /\ \A u \in Targets(nodes, rels, d, "CREATED_BY") : u.props.id = d.props.createdBy
        /\ \E f \in Targets(nodes, rels, d, "STORED_IN") : f.props.id = d.props.parentReference_id
        /\ \A f \in Targets(nodes, rels, d, "STORED_IN") : f.props.id = d.props.parentReference_id

(***************************************************************************)
(* Properties of the user edits export                                     *)
(***************************************************************************)
\* C29: in the answer of GET /export/user-edits every Document with at least
\* one UserEdit, its name shared with no other Document, appears under
\* exactly one key, and the entry under that key holds the code of every
\* ISO2 and ISO4 edit of the document.
C29_OneEntryPerDocument ==
    [][resp'.op = "get_user_edits" =>
          /\ resp'.status = 200
          /\ \A d \in {x \in nodes : x.label = "Document"} :
                LET edits == Targets(nodes, rels, d, "HAS_USER_EDIT")
                    keys == {k \in DOMAIN resp'.body.entries :
                                resp'.body.entries[k].name = d.props.name}
                IN (/\ edits # {}
                    /\ \A e \in nodes : (e.label = "Document" /\ e.props.name = d.props.name)
                                            => e = d) =>
                      /\ Cardinality(keys) = 1
                      /\ \A k \in keys, ue \in edits :
                            ue.props.field \in {"ISO2", "ISO4"} =>
                               resp'.body.entries[k][ue.props.field] = ue.props.editedValue]_vars

\* C27: a call of create_complete_document_structure for a document id of
\* its own, made while another call for another document id shares its
\* User, Folder or Session key, returns the document, and exactly one node
\* then carries each shared key.
C27_SharedKeysBothSucceed ==
    [][\A i \in Procs :
          (procs[i].pc = "call" /\ procs'[i].pc = "answered") =>
              /\ procs'[i].status = "ok"
              /\ Cardinality(OMatch(onodes', "User", procs[i].arg.createdBy_id)) = 1
              /\ Cardinality(OMatch(onodes', "Folder", procs[i].arg.parentReference_id)) = 1
              /\ Cardinality(OMatch(onodes', "Session", procs[i].arg.sessionId)) = 1]_vars

====
